---------------------------- MODULE Spec2Model ----------------------------
(***************************************************************************)
(* A model of the creational design-pattern examples:                      *)
(*   src/Creational/AbstractFactory.cpp    (UI widgets, manual new/delete) *)
(*   src/Creational/AbstractFactoryDB.cpp  (database connectors)           *)
(*   src/Creational/FactoryMethod.cpp      (2D game shapes)                *)
(*   src/Creational/BuilderNPC.cpp         (RPG characters)                *)
(*                                                                         *)
(* Every example is an independent program.  The variable prog says which  *)
(* one a behaviour is about; each program's actions are guarded by it.     *)
(*                                                                         *)
(* Numbers.  The shapes compute with doubles, M_PI and std::sqrt(3).  A    *)
(* double is modelled exactly, as (one + pi*PI + sqrt3*SQRT3) / 4 with     *)
(* integer one, pi and sqrt3: rounding is abstracted away, so "equal" in   *)
(* the model means "equal up to floating-point rounding" in the program.   *)
(***************************************************************************)
EXTENDS Integers, Sequences, FiniteSets

VARIABLES
    prog,       \* which program / client this behaviour is about
    made,       \* abstract factories: the create calls made so far and what they returned
    pc,         \* position of main (both demo mains)
    out,        \* lines written to standard output by main
    err,        \* lines written to standard error by main
    exitCode,   \* process exit code, -1 while running
    trace,      \* which handle each capability call of main went through
    ui,         \* AbstractFactory main: factory, button, menu, dialog objects
    relLog,     \* AbstractFactory main: objects in the order they were released
    fault,      \* a released, undefined or null object was used
    fm,         \* FactoryMethod main: circle, square, triangle, rectangle, obround handles
    obArgs,     \* FactoryMethod main: the length/height passed for the obround
    call,       \* FactoryMethod client: the last createObject call
    ret,        \* FactoryMethod client: its outcome
    area,       \* FactoryMethod client: <<getArea()>> of the returned object, <<>> before
    perim,      \* FactoryMethod client: <<getPerimeter()/getCircumference()>>, <<>> before
    kind,       \* Builder client: which builder class
    heap,       \* Builder client: the Character objects alive
    character,  \* Builder client: the builder's character pointer
    handles,    \* Builder client: the handles getCharacter returned, in order
    built,      \* Builder client: addresses buildCharacterAttributes has filled
    builds,     \* Builder client: buildCharacterAttributes calls since the initial state
    stale,      \* Builder client: the handles (by index) obtained before the last reset
    rolls       \* roll client: the roll calls made so far, each with its outcome

vars == <<prog, made, pc, out, err, exitCode, trace, ui, relLog, fault, fm, obArgs,
          call, ret, area, perim, kind, heap, character, handles, built, builds,
          stale, rolls>>

factoryVars == <<made>>
mainVars    == <<pc, out, err, exitCode, trace, fault>>
uiVars      == <<ui, relLog>>
fmVars      == <<fm, obArgs>>
shapeVars   == <<call, ret, area, perim>>
builderVars == <<kind, heap, character, handles, built, builds, stale>>
rollVars    == <<rolls>>

(***************************************************************************)
(* Bounds of the model.                                                    *)
(***************************************************************************)
MaxSize    == 4     \* size arguments range over -MaxSize..MaxSize
MaxBuilds  == 1     \* buildCharacterAttributes calls per behaviour
MaxChars   == 2     \* Character objects alive at once
MaxHandles == 2     \* handles the client keeps
MaxQty     == 2     \* roll: qty ranges over -1..MaxQty
MaxSides   == 3     \* roll: sides ranges over 0..MaxSides
MaxRolls   == 2     \* roll calls per behaviour

Sizes == (0 - MaxSize)..MaxSize

(***************************************************************************)
(* Exact arithmetic over 1, pi and sqrt(3), in quarters.                   *)
(***************************************************************************)
Lit(n)  == [one |-> 4 * n, pi |-> 0, sqrt3 |-> 0]
Half    == [one |-> 2, pi |-> 0, sqrt3 |-> 0]
M_PI    == [one |-> 0, pi |-> 4, sqrt3 |-> 0]
Sqrt3   == [one |-> 0, pi |-> 0, sqrt3 |-> 4]

IsRational(x) == x.pi = 0 /\ x.sqrt3 = 0
Scale(x, k)   == [one |-> (x.one * k) \div 4, pi |-> (x.pi * k) \div 4,
                  sqrt3 |-> (x.sqrt3 * k) \div 4]
\* every product in the program has at least one rational factor
Mul(x, y) == IF IsRational(y) THEN Scale(x, y.one) ELSE Scale(y, x.one)
Add(x, y) == [one |-> x.one + y.one, pi |-> x.pi + y.pi, sqrt3 |-> x.sqrt3 + y.sqrt3]
Sub(x, y) == [one |-> x.one - y.one, pi |-> x.pi - y.pi, sqrt3 |-> x.sqrt3 - y.sqrt3]

(***************************************************************************)
(* Abstract factories (AbstractFactory.cpp, AbstractFactoryDB.cpp).        *)
(* A product is named by its concrete class.                               *)
(***************************************************************************)
GUIFactories == {"WindowsFactory", "LinuxFactory", "MacOSFactory"}
DatabaseFactories == {"MySQLFactory", "PostgreSQLFactory", "OracleFactory"}


\* a copy-paste slip: LinuxFactory hands out the Windows button
createButton_CopyPaste(factory) ==
    CASE factory = "WindowsFactory" -> "WindowsButton"
      [] factory = "LinuxFactory"   -> "WindowsButton"
      [] factory = "MacOSFactory"   -> "MacOSButton"

createButton(factory) ==
    CASE factory = "WindowsFactory" -> "WindowsButton"
      [] factory = "LinuxFactory"   -> "LinuxButton"
      [] factory = "MacOSFactory"   -> "MacOSButton"

createMenu(factory) ==
    CASE factory = "WindowsFactory" -> "WindowsMenu"
      [] factory = "LinuxFactory"   -> "LinuxMenu"
      [] factory = "MacOSFactory"   -> "MacOSMenu"

createDialog(factory) ==
    CASE factory = "WindowsFactory" -> "WindowsDialog"
      [] factory = "LinuxFactory"   -> "LinuxDialog"
      [] factory = "MacOSFactory"   -> "MacOSDialog"

createConnection(factory) ==
    CASE factory = "MySQLFactory"      -> "MySQLConnection"
      [] factory = "PostgreSQLFactory" -> "PostgreSQLConnection"
      [] factory = "OracleFactory"     -> "OracleConnection"

createCommand(factory) ==
    CASE factory = "MySQLFactory"      -> "MySQLCommand"
      [] factory = "PostgreSQLFactory" -> "PostgreSQLCommand"
      [] factory = "OracleFactory"     -> "OracleCommand"

\* the class declarations: which base each concrete class derives from
BaseOf(cls) ==
    CASE cls \in {"WindowsButton", "LinuxButton", "MacOSButton"} -> "Button"
      [] cls \in {"WindowsMenu", "LinuxMenu", "MacOSMenu"}       -> "Menu"
      [] cls \in {"WindowsDialog", "LinuxDialog", "MacOSDialog"} -> "Dialog"
      [] cls \in GUIFactories                                    -> "GUIFactory"
      [] cls \in {"MySQLConnection", "PostgreSQLConnection", "OracleConnection"}
                                                                 -> "DatabaseConnection"
      [] cls \in {"MySQLCommand", "PostgreSQLCommand", "OracleCommand"}
                                                                 -> "DatabaseCommand"
      [] cls \in DatabaseFactories                               -> "DatabaseFactory"

\* the platform / vendor a concrete class is written for
FamilyOf(cls) ==
    CASE cls \in {"WindowsFactory", "WindowsButton", "WindowsMenu", "WindowsDialog"}
                                                                 -> "Windows"
      [] cls \in {"LinuxFactory", "LinuxButton", "LinuxMenu", "LinuxDialog"}
                                                                 -> "Linux"
      [] cls \in {"MacOSFactory", "MacOSButton", "MacOSMenu", "MacOSDialog"}
                                                                 -> "MacOS"
      [] cls \in {"MySQLFactory", "MySQLConnection", "MySQLCommand"}
                                                                 -> "MySQL"
      [] cls \in {"PostgreSQLFactory", "PostgreSQLConnection", "PostgreSQLCommand"}
                                                                 -> "PostgreSQL"
      [] cls \in {"OracleFactory", "OracleConnection", "OracleCommand"}
                                                                 -> "Oracle"

Made(factory, method, product) ==
    made' = made \cup {[factory |-> factory, method |-> method, product |-> product]}

(***************************************************************************)
(* Factory Method (FactoryMethod.cpp): shapes and GameObjectFactory.       *)
(***************************************************************************)
ObjectType == {"Circle", "Square", "Rectangle", "Triangle", "Obround"}

nullptr == [type |-> "nullptr"]

Return(v) == [kind |-> "return", value |-> v]
Throw(e, what) == [kind |-> "throw", exception |-> e, what |-> what]

\* constructors
Circle(r) == Return([type |-> "Circle", radius |-> r])
Square(length) == Return([type |-> "Square", sideLength |-> length])
Rectangle(length, height) ==
    Return([type |-> "Rectangle", sideLength |-> length, sideHeight |-> height])
Triangle(length) == Return([type |-> "Triangle", sideLength |-> length])

\* an off-by-one slip: the boundary length = height is rejected too
Obround_RejectsEqual(length, height) ==
    IF length <= height
    THEN Throw("std::invalid_argument", "Length cannot be less than height for an obround")
    ELSE Return([type |-> "Obround", sideLength |-> length, sideHeight |-> height])

Obround(length, height) ==
    IF length < height
    THEN Throw("std::invalid_argument", "Length cannot be less than height for an obround")
    ELSE Return([type |-> "Obround", sideLength |-> length, sideHeight |-> height])


\* a forgotten factor: M_PI * radius
Circle_getArea_NoSquare(o) == Mul(M_PI, Lit(o.radius))

Circle_getArea(o) == Mul(Mul(M_PI, Lit(o.radius)), Lit(o.radius))
Circle_getCircumference(o) == Mul(Mul(Lit(2), M_PI), Lit(o.radius))

Square_getArea(o) == Mul(Lit(o.sideLength), Lit(o.sideLength))
Square_getPerimeter(o) == Mul(Lit(4), Lit(o.sideLength))

Rectangle_getArea(o) == Mul(Lit(o.sideLength), Lit(o.sideHeight))

\* a precedence slip: 2 * sideLength + sideHeight
Rectangle_getPerimeter_NoParens(o) ==
    Add(Mul(Lit(2), Lit(o.sideLength)), Lit(o.sideHeight))

Rectangle_getPerimeter(o) == Mul(Lit(2), Add(Lit(o.sideLength), Lit(o.sideHeight)))

Triangle_getArea(o) == Mul(Mul(Sqrt3, Half), Lit(o.sideLength))
Triangle_getCircumference(o) == Mul(Lit(3), Lit(o.sideLength))

Obround_getArea(o) ==
    Mul(Mul(Mul(Mul(Mul(Mul(M_PI, Half), Lit(o.sideHeight)), Half), Lit(o.sideHeight)),
            Sub(Lit(o.sideLength), Lit(o.sideHeight))),
        Lit(o.sideHeight))
Obround_getPerimeter(o) ==
    Mul(Mul(Mul(M_PI, Lit(o.sideHeight)), Lit(2)),
        Sub(Lit(o.sideLength), Lit(o.sideHeight)))

\* the area member of the object's own class
getArea(o) ==
    CASE o.type = "Circle"    -> Circle_getArea(o)
      [] o.type = "Square"    -> Square_getArea(o)
      [] o.type = "Rectangle" -> Rectangle_getArea(o)
      [] o.type = "Triangle"  -> Triangle_getArea(o)
      [] o.type = "Obround"   -> Obround_getArea(o)

\* the perimeter / circumference member of the object's own class
getPerimeter(o) ==
    CASE o.type = "Circle"    -> Circle_getCircumference(o)
      [] o.type = "Square"    -> Square_getPerimeter(o)
      [] o.type = "Rectangle" -> Rectangle_getPerimeter(o)
      [] o.type = "Triangle"  -> Triangle_getCircumference(o)
      [] o.type = "Obround"   -> Obround_getPerimeter(o)

\* GameObjectFactory::createObject(ObjectType, double)
createObject1(type, size) ==
    CASE type = "Circle"   -> Circle(size)
      [] type = "Square"   -> Square(size)
      [] type = "Triangle" -> Triangle(size)
      [] OTHER             -> Return(nullptr)


\* a missing default: every other type falls into the Obround case
createObject2_NoDefault(type, size1, size2) ==
    CASE type = "Rectangle" -> Rectangle(size1, size2)
      [] OTHER              -> Obround(size1, size2)

\* GameObjectFactory::createObject(ObjectType, double, double)
createObject2(type, size1, size2) ==
    CASE type = "Rectangle" -> Rectangle(size1, size2)
      [] type = "Obround"   -> Obround(size1, size2)
      [] OTHER              -> Return(nullptr)

(***************************************************************************)
(* Builder (BuilderNPC.cpp).                                               *)
(***************************************************************************)
Builders == {"HeroBuilder", "MonsterBuilder", "NPCBuilder"}

\* roll: the sums results can end with, one draw of dist(rDev) in 1..sides per
\* iteration of the loop
RECURSIVE rollLoop(_, _, _, _)
rollLoop(i, qty, sides, results) ==
    IF i < qty
    THEN UNION {rollLoop(i + 1, qty, sides, results + d) : d \in 1..sides}
    ELSE {results}


\* an off-by-one loop bound: i <= qty.value, one draw too many
roll_ExtraDraw(qty, sides) == rollLoop(0, qty + 1, sides, 0)

roll(qty, sides) == rollLoop(0, qty, sides, 0)

\* std::make_shared<Character>(): a value-initialized Character
NewCharacter ==
    [name |-> "", health |-> 0, armor |-> "", weapon |-> "", magic |-> "",
     strength |-> 0, intelligence |-> 0, wisdom |-> 0, dexterity |-> 0,
     constitution |-> 0, charisma |-> 0]

\* no object at this address
Free == [name |-> "<free>"]


\* a forgotten step: the weapon is never assigned
HeroBuilder_buildCharacterAttributes_NoWeapon(c) ==
    {[c EXCEPT !.name = "Link", !.health = 3, !.armor = "Green Tunic",
               !.magic = "Latern",
               !.strength = r1 + 12, !.intelligence = r2 + 9, !.wisdom = r3 + 8,
               !.dexterity = r4 + 10, !.constitution = r5 + 10, !.charisma = r6 + 12] :
        r1 \in roll(1, 6), r2 \in roll(1, 6), r3 \in roll(1, 4),
        r4 \in roll(1, 8), r5 \in roll(1, 8), r6 \in roll(1, 6)}

\* what *character can be after HeroBuilder::buildCharacterAttributes
HeroBuilder_buildCharacterAttributes(c) ==
    {[c EXCEPT !.name = "Link", !.health = 3, !.armor = "Green Tunic",
               !.weapon = "Fighter Sword", !.magic = "Latern",
               !.strength = r1 + 12, !.intelligence = r2 + 9, !.wisdom = r3 + 8,
               !.dexterity = r4 + 10, !.constitution = r5 + 10, !.charisma = r6 + 12] :
        r1 \in roll(1, 6), r2 \in roll(1, 6), r3 \in roll(1, 4),
        r4 \in roll(1, 8), r5 \in roll(1, 8), r6 \in roll(1, 6)}


\* a wrong die: dexterity rolled with three eight-sided dice
MonsterBuilder_buildCharacterAttributes_D8(c) ==
    {[c EXCEPT !.name = "Moblin", !.health = 2, !.armor = "None",
               !.weapon = "Spear", !.magic = "None",
               !.strength = r1 + 15, !.intelligence = r2 + 2, !.wisdom = r3 + 2,
               !.dexterity = r4, !.constitution = r5 + 10, !.charisma = r6 + 2] :
        r1 \in roll(1, 4), r2 \in roll(1, 4), r3 \in roll(1, 4),
        r4 \in roll(3, 8), r5 \in roll(1, 8), r6 \in roll(1, 4)}

MonsterBuilder_buildCharacterAttributes(c) ==
    {[c EXCEPT !.name = "Moblin", !.health = 2, !.armor = "None",
               !.weapon = "Spear", !.magic = "None",
               !.strength = r1 + 15, !.intelligence = r2 + 2, !.wisdom = r3 + 2,
               !.dexterity = r4, !.constitution = r5 + 10, !.charisma = r6 + 2] :
        r1 \in roll(1, 4), r2 \in roll(1, 4), r3 \in roll(1, 4),
        r4 \in roll(3, 6), r5 \in roll(1, 8), r6 \in roll(1, 4)}

NPCBuilder_buildCharacterAttributes(c) ==
    {[c EXCEPT !.name = "Pricess Zelda", !.health = 12, !.armor = "Sheika Robes",
               !.weapon = "Gleaming Rapier", !.magic = "Teleport",
               !.strength = r1 + 8, !.intelligence = r2 + 12, !.wisdom = r3 + 14,
               !.dexterity = r4 + 12, !.constitution = r5 + 6, !.charisma = r6 + 14] :
        r1 \in roll(1, 6), r2 \in roll(1, 6), r3 \in roll(1, 4),
        r4 \in roll(1, 6), r5 \in roll(2, 6), r6 \in roll(1, 4)}

\* virtual dispatch of CharacterBuilder::buildCharacterAttributes
buildCharacterAttributes(builder, c) ==
    CASE builder = "HeroBuilder"    -> HeroBuilder_buildCharacterAttributes(c)
      [] builder = "MonsterBuilder" -> MonsterBuilder_buildCharacterAttributes(c)
      [] builder = "NPCBuilder"     -> NPCBuilder_buildCharacterAttributes(c)

Addrs == 1..MaxChars

\* shared_ptr ownership: the Character at a stays alive while the builder or a
\* handle points to it
Owned(a, chr, hs) == a = chr \/ \E i \in 1..Len(hs) : hs[i] = a

\* the heap after the owners changed: objects nobody owns are destroyed
Collect(h, chr, hs) == [a \in Addrs |-> IF Owned(a, chr, hs) THEN h[a] ELSE Free]

\* reset(): character = std::make_shared<Character>()
reset(h, chr, hs, a) ==
    Collect([h EXCEPT ![a] = NewCharacter], a, hs)

(***************************************************************************)
(* Initial states.  Idle is the value of every variable of the programs a  *)
(* behaviour is not about.                                                 *)
(***************************************************************************)
NoObject == [cls |-> "", state |-> "unallocated"]
NoCall == [arity |-> 0, type |-> "", size1 |-> 0, size2 |-> 0]
NoRet == [kind |-> "none"]

IdleFactory == made = {}
IdleMain == pc = 0 /\ out = <<>> /\ err = <<>> /\ exitCode = 0 - 1 /\ trace = <<>>
            /\ fault = FALSE
IdleUI == ui = [o \in {"factory", "button", "menu", "dialog"} |-> NoObject]
          /\ relLog = <<>>
IdleFM == fm = [h \in {"circle", "square", "triangle", "rectangle", "obround"} |-> nullptr]
          /\ obArgs = <<0, 0>>
IdleShapes == call = NoCall /\ ret = NoRet /\ area = <<>> /\ perim = <<>>
IdleBuilder == kind = "" /\ heap = [a \in Addrs |-> Free] /\ character = 0
               /\ handles = <<>> /\ built = {} /\ builds = 0 /\ stale = {}
IdleRoll == rolls = <<>>

(***************************************************************************)
(* A client of the abstract factories: any sequence of create calls.       *)
(***************************************************************************)
InitFactories ==
    /\ prog = "factories"
    /\ IdleFactory /\ IdleMain /\ IdleUI /\ IdleFM /\ IdleShapes /\ IdleBuilder /\ IdleRoll

CreateButton ==
    /\ prog = "factories"
    /\ \E f \in GUIFactories : Made(f, "createButton", createButton(f))
    /\ UNCHANGED <<prog, rollVars, mainVars, uiVars, fmVars, shapeVars, builderVars>>

CreateMenu ==
    /\ prog = "factories"
    /\ \E f \in GUIFactories : Made(f, "createMenu", createMenu(f))
    /\ UNCHANGED <<prog, rollVars, mainVars, uiVars, fmVars, shapeVars, builderVars>>

CreateDialog ==
    /\ prog = "factories"
    /\ \E f \in GUIFactories : Made(f, "createDialog", createDialog(f))
    /\ UNCHANGED <<prog, rollVars, mainVars, uiVars, fmVars, shapeVars, builderVars>>

CreateConnection ==
    /\ prog = "factories"
    /\ \E f \in DatabaseFactories : Made(f, "createConnection", createConnection(f))
    /\ UNCHANGED <<prog, rollVars, mainVars, uiVars, fmVars, shapeVars, builderVars>>

CreateCommand ==
    /\ prog = "factories"
    /\ \E f \in DatabaseFactories : Made(f, "createCommand", createCommand(f))
    /\ UNCHANGED <<prog, rollVars, mainVars, uiVars, fmVars, shapeVars, builderVars>>

NextFactories ==
    CreateButton \/ CreateMenu \/ CreateDialog \/ CreateConnection \/ CreateCommand

SpecFactories == InitFactories /\ [][NextFactories]_vars

(***************************************************************************)
(* A client of GameObjectFactory: createObject with any arguments, then    *)
(* the area and perimeter of the object it returned.                       *)
(***************************************************************************)
InitShapes ==
    /\ prog = "shapes"
    /\ IdleFactory /\ IdleMain /\ IdleUI /\ IdleFM /\ IdleShapes /\ IdleBuilder /\ IdleRoll

CallCreateObject1 ==
    /\ prog = "shapes"
    /\ \E type \in ObjectType, size \in Sizes :
          /\ call' = [arity |-> 1, type |-> type, size1 |-> size, size2 |-> 0]
          /\ ret' = createObject1(type, size)
    /\ area' = <<>> /\ perim' = <<>>
    /\ UNCHANGED <<prog, rollVars, factoryVars, mainVars, uiVars, fmVars, builderVars>>

CallCreateObject2 ==
    /\ prog = "shapes"
    /\ \E type \in ObjectType, size1 \in Sizes, size2 \in Sizes :
          /\ call' = [arity |-> 2, type |-> type, size1 |-> size1, size2 |-> size2]
          /\ ret' = createObject2(type, size1, size2)
    /\ area' = <<>> /\ perim' = <<>>
    /\ UNCHANGED <<prog, rollVars, factoryVars, mainVars, uiVars, fmVars, builderVars>>

\* the caller got an object back
Returned == ret.kind = "return" /\ ret.value # nullptr

CallGetArea ==
    /\ prog = "shapes"
    /\ Returned
    /\ area' = <<getArea(ret.value)>>
    /\ UNCHANGED <<prog, rollVars, call, ret, perim, factoryVars, mainVars, uiVars, fmVars,
                   builderVars>>

CallGetPerimeter ==
    /\ prog = "shapes"
    /\ Returned
    /\ perim' = <<getPerimeter(ret.value)>>
    /\ UNCHANGED <<prog, rollVars, call, ret, area, factoryVars, mainVars, uiVars, fmVars,
                   builderVars>>

NextShapes == CallCreateObject1 \/ CallCreateObject2 \/ CallGetArea \/ CallGetPerimeter

SpecShapes == InitShapes /\ [][NextShapes]_vars

(***************************************************************************)
(* A client of one builder: the constructor, then any sequence of reset,   *)
(* buildCharacterAttributes (directly or through CharacterDirector) and    *)
(* getCharacter, keeping every handle it gets.                             *)
(***************************************************************************)
\* HeroBuilder() / MonsterBuilder() / NPCBuilder(): this->reset()
InitBuilder ==
    /\ prog = "builder"
    /\ kind \in Builders
    /\ character = 1
    /\ heap = reset([a \in Addrs |-> Free], 0, <<>>, 1)
    /\ handles = <<>> /\ built = {} /\ builds = 0 /\ stale = {}
    /\ IdleFactory /\ IdleMain /\ IdleUI /\ IdleFM /\ IdleShapes /\ IdleRoll


\* a reset that clears the product in place instead of installing a new one:
\* *character = Character()
Reset_InPlace ==
    /\ prog = "builder"
    /\ heap' = [heap EXCEPT ![character] = NewCharacter]
    /\ built' = built \ {character}
    /\ stale' = 1..Len(handles)
    /\ UNCHANGED <<prog, rollVars, kind, character, handles, builds, factoryVars, mainVars,
                   uiVars, fmVars, shapeVars>>

Reset ==
    /\ prog = "builder"
    /\ \E a \in Addrs :
          /\ heap[a] = Free
          /\ \A b \in 1..(a - 1) : heap[b] # Free
          /\ heap' = reset(heap, character, handles, a)
          /\ character' = a
          /\ built' = {b \in built : Owned(b, a, handles)}
    /\ stale' = 1..Len(handles)
    /\ UNCHANGED <<prog, rollVars, kind, handles, builds, factoryVars, mainVars, uiVars,
                   fmVars, shapeVars>>

\* the effect of builder.buildCharacterAttributes() on the client's state
Build ==
    /\ builds < MaxBuilds
    /\ \E c \in buildCharacterAttributes(kind, heap[character]) :
          heap' = [heap EXCEPT ![character] = c]
    /\ built' = built \cup {character}
    /\ builds' = builds + 1
    /\ UNCHANGED <<prog, rollVars, kind, character, handles, stale, factoryVars, mainVars,
                   uiVars, fmVars, shapeVars>>

BuildCharacterAttributes ==
    /\ prog = "builder"
    /\ Build

\* CharacterDirector::createHero / createMonster / createNPC
DirectorCreate ==
    /\ prog = "builder"
    /\ Build

GetCharacter ==
    /\ prog = "builder"
    /\ Len(handles) < MaxHandles
    /\ handles' = Append(handles, character)
    /\ UNCHANGED <<prog, rollVars, kind, heap, character, built, builds, stale, factoryVars,
                   mainVars, uiVars, fmVars, shapeVars>>

\* the least element of a set of ints
Lowest(S) == CHOOSE x \in S : \A y \in S : x <= y

\* main, lines 178-184: a builder constructed and then assembled once through the
\* director.  Of the outcomes of that assembly, the one with every die at its lowest.
FirstAssembly(builder) ==
    LET S == buildCharacterAttributes(builder, NewCharacter)
        lo == [strength     |-> Lowest({c.strength : c \in S}),
               intelligence |-> Lowest({c.intelligence : c \in S}),
               wisdom       |-> Lowest({c.wisdom : c \in S}),
               dexterity    |-> Lowest({c.dexterity : c \in S}),
               constitution |-> Lowest({c.constitution : c \in S}),
               charisma     |-> Lowest({c.charisma : c \in S})]
    IN  {c \in S : /\ c.strength = lo.strength /\ c.intelligence = lo.intelligence
                   /\ c.wisdom = lo.wisdom /\ c.dexterity = lo.dexterity
                   /\ c.constitution = lo.constitution /\ c.charisma = lo.charisma}

\* the builder as main has it at line 186; builds counts the calls made from here on
InitAssembled ==
    /\ prog = "builder"
    /\ kind \in Builders
    /\ character = 1
    /\ \E c \in FirstAssembly(kind) :
          heap = [reset([a \in Addrs |-> Free], 0, <<>>, 1) EXCEPT ![1] = c]
    /\ handles = <<>> /\ built = {1} /\ builds = 0 /\ stale = {}
    /\ IdleFactory /\ IdleMain /\ IdleUI /\ IdleFM /\ IdleShapes /\ IdleRoll

NextBuilder == Reset \/ BuildCharacterAttributes \/ DirectorCreate \/ GetCharacter

SpecBuilder == InitBuilder /\ [][NextBuilder]_vars

\* the same client, starting from an assembled character
SpecHandles == InitAssembled /\ [][NextBuilder]_vars

\* the builder and the shape factory, each on its own
SpecProducts == (InitBuilder \/ InitShapes) /\ [][NextBuilder \/ NextShapes]_vars

(***************************************************************************)
(* A client of roll (BuilderNPC.cpp): any sequence of calls with any qty   *)
(* and sides.  An outcome is a returned value or the end of the process.   *)
(***************************************************************************)
Qtys == (0 - 1)..MaxQty
SidesRange == 0..MaxSides

Abort == [kind |-> "abort"]

\* values standing for "any int": below, inside and above every range of the model
Junk == {0 - 1, 0, MaxQty * MaxSides + 1}

\* a call roll(DiceQty{qty}, DiceSides{sides}).  std::uniform_int_distribution<int>
\* dist(1, sides) requires 1 <= sides; with sides < 1 the behaviour is undefined:
\* the library's assertion ends the process, or the call returns some int
rollCall(qty, sides) ==
    IF 1 <= sides
    THEN {Return(r) : r \in roll(qty, sides)}
    ELSE {Abort} \cup {Return(v) : v \in Junk}

InitRoll ==
    /\ prog = "roll"
    /\ IdleRoll /\ IdleFactory /\ IdleMain /\ IdleUI /\ IdleFM /\ IdleShapes /\ IdleBuilder

\* the process can make another call
CanRoll ==
    /\ prog = "roll"
    /\ Len(rolls) < MaxRolls
    /\ \A i \in 1..Len(rolls) : rolls[i].outcome.kind = "return"

\* the call roll(qty, sides) ending with outcome o
RollOutcome(qty, sides, o) ==
    /\ CanRoll
    /\ o \in rollCall(qty, sides)
    /\ rolls' = Append(rolls, [qty |-> qty, sides |-> sides, outcome |-> o])
    /\ UNCHANGED <<prog, factoryVars, mainVars, uiVars, fmVars, shapeVars, builderVars>>

Roll ==
    \E qty \in Qtys, sides \in SidesRange :
       \E o \in rollCall(qty, sides) : RollOutcome(qty, sides, o)

NextRoll == Roll

SpecRoll == InitRoll /\ [][NextRoll]_vars

(***************************************************************************)
(* main of AbstractFactory.cpp.  pc is the source line main is about to    *)
(* execute, 0 when the process is not running.                             *)
(***************************************************************************)
\* lines 199-205: the factory class the preprocessor selects
SelectFactory(defined) ==
    IF "WINDOWS" \in defined THEN "WindowsFactory"
    ELSE IF "LINUX" \in defined THEN "LinuxFactory"
    ELSE "MacOSFactory"

\* the base classes of AbstractFactory.cpp that declare a virtual destructor
VirtualDestructors == {}

\* delete p, p of static type base pointing to an object of class cls: without a
\* virtual destructor in base the behaviour is undefined
delete(base, cls) ==
    IF base = cls \/ base \in VirtualDestructors
    THEN {"released"}
    ELSE {"released", "undefined"}

\* XxxButton::draw() etc.: the line written
draw(cls) == cls

\* a call through pointer o: undefined unless the object is alive
Use(o) == fault' = (fault \/ ui[o].state # "live")

InitUI ==
    /\ prog = "ui_main"
    /\ pc = 200 /\ out = <<>> /\ err = <<>> /\ exitCode = 0 - 1 /\ trace = <<>>
    /\ fault = FALSE
    /\ IdleUI /\ IdleFactory /\ IdleFM /\ IdleShapes /\ IdleBuilder /\ IdleRoll

UI_NewFactory ==
    /\ prog = "ui_main" /\ pc = 200
    /\ \E defined \in SUBSET {"WINDOWS", "LINUX"} :
          ui' = [ui EXCEPT !.factory = [cls |-> SelectFactory(defined), state |-> "live"]]
    /\ pc' = 207
    /\ UNCHANGED <<prog, rollVars, out, err, exitCode, trace, fault, relLog, factoryVars, fmVars,
                   shapeVars, builderVars>>

\* lines 207-209
UI_Create ==
    /\ prog = "ui_main" /\ pc \in 207..209
    /\ Use("factory")
    /\ ui' = CASE pc = 207 -> [ui EXCEPT !.button =
                                  [cls |-> createButton(ui.factory.cls), state |-> "live"]]
               [] pc = 208 -> [ui EXCEPT !.menu =
                                  [cls |-> createMenu(ui.factory.cls), state |-> "live"]]
               [] pc = 209 -> [ui EXCEPT !.dialog =
                                  [cls |-> createDialog(ui.factory.cls), state |-> "live"]]
    /\ pc' = IF pc = 209 THEN 211 ELSE pc + 1
    /\ UNCHANGED <<prog, rollVars, out, err, exitCode, trace, relLog, factoryVars, fmVars,
                   shapeVars, builderVars>>

\* lines 211-213
UI_Draw ==
    /\ prog = "ui_main" /\ pc \in 211..213
    /\ LET o == CASE pc = 211 -> "button" [] pc = 212 -> "menu" [] pc = 213 -> "dialog"
       IN  /\ Use(o)
           /\ out' = Append(out, draw(ui[o].cls))
           /\ trace' = Append(trace, <<o, "draw">>)
    /\ pc' = IF pc = 213 THEN 219 ELSE pc + 1
    /\ UNCHANGED <<prog, rollVars, err, exitCode, ui, relLog, factoryVars, fmVars, shapeVars,
                   builderVars>>

\* lines 219-222
UI_Delete ==
    /\ prog = "ui_main" /\ pc \in 219..222
    /\ LET o == CASE pc = 219 -> "dialog" [] pc = 220 -> "menu"
                  [] pc = 221 -> "button" [] pc = 222 -> "factory"
       IN  /\ Use(o)
           /\ \E s \in delete(BaseOf(ui[o].cls), ui[o].cls) :
                 /\ ui' = [ui EXCEPT ![o].state = s]
                 /\ relLog' = IF s = "released" THEN Append(relLog, o) ELSE relLog
    /\ pc' = IF pc = 222 THEN 226 ELSE pc + 1
    /\ UNCHANGED <<prog, rollVars, out, err, exitCode, trace, factoryVars, fmVars, shapeVars,
                   builderVars>>

UI_Return ==
    /\ prog = "ui_main" /\ pc = 226
    /\ exitCode' = 0
    /\ pc' = 0
    /\ UNCHANGED <<prog, rollVars, out, err, trace, fault, uiVars, factoryVars, fmVars, shapeVars,
                   builderVars>>

NextUI == UI_NewFactory \/ UI_Create \/ UI_Draw \/ UI_Delete \/ UI_Return

SpecUI == InitUI /\ [][NextUI]_vars

(***************************************************************************)
(* main of FactoryMethod.cpp.  pc is the source line main is about to      *)
(* execute, 0 when the process is not running.  The arguments of the       *)
(* obround (9.0, 2.0 in the source) are an input, so that both outcomes of *)
(* its construction are covered.                                           *)
(***************************************************************************)
CircleSize      == 5
SquareSize      == 5
TriangleSize    == 5
RectangleLength == 10
RectangleHeight == 2
ObroundLength   == 9
ObroundHeight   == 2

\* BasicSprite::draw / BasicCollider::collide, reached through the shape
Line(method) ==
    CASE method = "draw"    -> "Drawing a basic sprite..."
      [] method = "collide" -> "Colliding basic collider..."

\* the statement at a line of 241..248 and 251..252: handle and member called
StatementAt(line) ==
    CASE line = 241 -> <<"circle", "draw">>      [] line = 242 -> <<"circle", "collide">>
      [] line = 243 -> <<"triangle", "draw">>    [] line = 244 -> <<"triangle", "collide">>
      [] line = 245 -> <<"square", "draw">>      [] line = 246 -> <<"square", "collide">>
      [] line = 247 -> <<"rectangle", "draw">>   [] line = 248 -> <<"rectangle", "collide">>
      [] line = 251 -> <<"obround", "draw">>     [] line = 252 -> <<"obround", "collide">>

\* an exception leaving main: std::terminate
Terminate ==
    /\ pc' = 0
    /\ exitCode' = 134
    /\ UNCHANGED <<fm, err>>

InitFM ==
    /\ prog = "fm_main"
    /\ pc = 230 /\ out = <<>> /\ err = <<>> /\ exitCode = 0 - 1 /\ trace = <<>>
    /\ fault = FALSE
    /\ fm = [h \in {"circle", "square", "triangle", "rectangle", "obround"} |-> nullptr]
    /\ obArgs \in (Sizes \X Sizes) \cup {<<ObroundLength, ObroundHeight>>}
    /\ IdleUI /\ IdleFactory /\ IdleShapes /\ IdleBuilder /\ IdleRoll

\* lines 230-234: a handle initialized from createObject, outside any try block
FM_Create ==
    /\ prog = "fm_main" /\ pc \in {230, 231, 232, 234}
    /\ LET h == CASE pc = 230 -> "circle" [] pc = 231 -> "square"
                  [] pc = 232 -> "triangle" [] pc = 234 -> "rectangle"
           r == CASE pc = 230 -> createObject1("Circle", CircleSize)
                  [] pc = 231 -> createObject1("Square", SquareSize)
                  [] pc = 232 -> createObject1("Triangle", TriangleSize)
                  [] pc = 234 -> createObject2("Rectangle", RectangleLength,
                                               RectangleHeight)
       IN  IF r.kind = "return"
           THEN /\ fm' = [fm EXCEPT ![h] = r.value]
                /\ pc' = CASE pc = 232 -> 234 [] pc = 234 -> 235 [] OTHER -> pc + 1
                /\ UNCHANGED <<exitCode, err>>
           ELSE Terminate
    /\ UNCHANGED <<prog, rollVars, out, trace, fault, obArgs, factoryVars, uiVars, shapeVars,
                   builderVars>>

\* lines 235-239: try { obround = createObject(...) } catch (invalid_argument)
FM_Obround ==
    /\ prog = "fm_main" /\ pc = 235
    /\ LET r == createObject2("Obround", obArgs[1], obArgs[2])
       IN  CASE r.kind = "return" ->
                  /\ fm' = [fm EXCEPT !.obround = r.value]
                  /\ pc' = 241
                  /\ UNCHANGED <<exitCode, err>>
             [] r.kind = "throw" /\ r.exception = "std::invalid_argument" ->
                  /\ err' = Append(err, <<"Failed to create obround: ", r.what>>)
                  /\ pc' = 241
                  /\ UNCHANGED <<exitCode, fm>>
             [] OTHER -> Terminate
    /\ UNCHANGED <<prog, rollVars, out, trace, fault, obArgs, factoryVars, uiVars, shapeVars,
                   builderVars>>

\* h->draw() / h->collide(); through a null handle the behaviour is undefined:
\* the process may crash or go on
Invoke(h, method, next) ==
    IF fm[h] # nullptr
    THEN /\ out' = Append(out, Line(method))
         /\ trace' = Append(trace, <<h, method>>)
         /\ pc' = next
         /\ UNCHANGED <<fault, exitCode>>
    ELSE /\ fault' = TRUE
         /\ \/ pc' = 0 /\ exitCode' = 139
            \/ pc' = next /\ UNCHANGED exitCode
         /\ UNCHANGED <<out, trace>>

\* lines 241-248
FM_DrawCollide ==
    /\ prog = "fm_main" /\ pc \in 241..248
    /\ Invoke(StatementAt(pc)[1], StatementAt(pc)[2], IF pc = 248 THEN 250 ELSE pc + 1)
    /\ UNCHANGED <<prog, rollVars, err, fmVars, factoryVars, uiVars, shapeVars, builderVars>>


\* a forgotten guard: the obround is drawn whether or not it was created
FM_ObroundCheck_NoGuard ==
    /\ prog = "fm_main" /\ pc = 250
    /\ pc' = 251
    /\ UNCHANGED <<prog, rollVars, out, err, exitCode, trace, fault, fmVars, factoryVars, uiVars,
                   shapeVars, builderVars>>

\* line 250: if (obround)
FM_ObroundCheck ==
    /\ prog = "fm_main" /\ pc = 250
    /\ pc' = IF fm.obround # nullptr THEN 251 ELSE 255
    /\ UNCHANGED <<prog, rollVars, out, err, exitCode, trace, fault, fmVars, factoryVars, uiVars,
                   shapeVars, builderVars>>

\* lines 251-252
FM_ObroundDrawCollide ==
    /\ prog = "fm_main" /\ pc \in 251..252
    /\ Invoke(StatementAt(pc)[1], StatementAt(pc)[2], IF pc = 252 THEN 255 ELSE pc + 1)
    /\ UNCHANGED <<prog, rollVars, err, fmVars, factoryVars, uiVars, shapeVars, builderVars>>

\* line 255
FM_Return ==
    /\ prog = "fm_main" /\ pc = 255
    /\ exitCode' = 0
    /\ pc' = 0
    /\ UNCHANGED <<prog, rollVars, out, err, trace, fault, fmVars, factoryVars, uiVars, shapeVars,
                   builderVars>>

NextFM == FM_Create \/ FM_Obround \/ FM_DrawCollide \/ FM_ObroundCheck
          \/ FM_ObroundDrawCollide \/ FM_Return

SpecFM == InitFM /\ [][NextFM]_vars

(***************************************************************************)
(* Properties.                                                             *)
(***************************************************************************)

\* C1: every product a concrete factory returns, in any sequence of create calls,
\* belongs to that factory's own family; LinuxFactory returns only LinuxButton,
\* LinuxMenu, LinuxDialog and OracleFactory only OracleConnection, OracleCommand.
C1_SameFamily ==
    \A m \in made :
       /\ FamilyOf(m.product) = FamilyOf(m.factory)
       /\ m.factory = "LinuxFactory" =>
             m.product \in {"LinuxButton", "LinuxMenu", "LinuxDialog"}
       /\ m.factory = "OracleFactory" =>
             m.product \in {"OracleConnection", "OracleCommand"}

\* LinuxFactory and OracleFactory have each made every product they can make
C1_Witness ==
    /\ Cardinality({m \in made : m.factory = "LinuxFactory"}) = 3
    /\ Cardinality({m \in made : m.factory = "OracleFactory"}) = 2

\* C2: createObject(Obround, length, height) throws std::invalid_argument when
\* length < height and returns a non-null object when length >= height.
C2_ObroundPrecondition ==
    (call.arity = 2 /\ call.type = "Obround") =>
       /\ call.size1 < call.size2 =>
             (ret.kind = "throw" /\ ret.exception = "std::invalid_argument")
       /\ call.size1 >= call.size2 => Returned

\* the boundary: an obround as long as it is high was returned
C2_Witness ==
    /\ call.arity = 2 /\ call.type = "Obround"
    /\ call.size1 = call.size2
    /\ Returned

\* C3: an unmatched type/arity combination returns null and never throws, for
\* every size; every matched combination other than an Obround with
\* length < height returns a non-null object.
C3_UnmatchedIsNull ==
    /\ (call.arity = 1 /\ call.type \in {"Rectangle", "Obround"}) =>
          (ret.kind = "return" /\ ret.value = nullptr)
    /\ (call.arity = 2 /\ call.type \in {"Circle", "Square", "Triangle"}) =>
          (ret.kind = "return" /\ ret.value = nullptr)
    /\ (call.arity = 1 /\ call.type \in {"Circle", "Square", "Triangle"}) => Returned
    /\ (call.arity = 2 /\ call.type = "Rectangle") => Returned
    /\ (call.arity = 2 /\ call.type = "Obround" /\ call.size1 >= call.size2) => Returned

\* a two-size call for a one-size shape, with size1 < size2, came back null
C3_Witness ==
    /\ call.arity = 2 /\ call.type = "Circle"
    /\ call.size1 < call.size2
    /\ ret.kind = "return" /\ ret.value = nullptr

\* C4: for positive l and h the object createObject(Rectangle, l, h) returns has
\* length l, height h, area l*h and perimeter 2*(l+h).
C4_RectangleAreaPerimeter ==
    (call.arity = 2 /\ call.type = "Rectangle" /\ call.size1 > 0 /\ call.size2 > 0) =>
       /\ Returned
       /\ ret.value.sideLength = call.size1
       /\ ret.value.sideHeight = call.size2
       /\ area # <<>> =>
             area[1] = [one |-> 4 * (call.size1 * call.size2), pi |-> 0, sqrt3 |-> 0]
       /\ perim # <<>> =>
             perim[1] = [one |-> 4 * (2 * (call.size1 + call.size2)), pi |-> 0,
                         sqrt3 |-> 0]

\* a rectangle with different positive sides has been measured
C4_Witness ==
    /\ call.arity = 2 /\ call.type = "Rectangle"
    /\ call.size1 > 0 /\ call.size2 > 0 /\ call.size1 # call.size2
    /\ area # <<>> /\ perim # <<>>

\* the range count + modifier .. count*sides + modifier of each stat's roll
StatRanges(builder) ==
    CASE builder = "HeroBuilder" ->
           [strength |-> 13..18, intelligence |-> 10..15, wisdom |-> 9..12,
            dexterity |-> 11..18, constitution |-> 11..18, charisma |-> 13..18]
      [] builder = "MonsterBuilder" ->
           [strength |-> 16..19, intelligence |-> 3..6, wisdom |-> 3..6,
            dexterity |-> 3..18, constitution |-> 11..18, charisma |-> 3..6]
      [] builder = "NPCBuilder" ->
           [strength |-> 9..14, intelligence |-> 13..18, wisdom |-> 15..18,
            dexterity |-> 13..18, constitution |-> 8..18, charisma |-> 15..18]

\* C5: after one buildCharacterAttributes call, directly or through the director,
\* whatever the dice gave, the builder's character has a non-empty name, health > 0,
\* non-empty armor, weapon and magic, and every stat within count + modifier ..
\* count*sides + modifier of its roll.
C5_AssembledInRange ==
    (prog = "builder" /\ character \in built) =>
       LET c == heap[character]
           r == StatRanges(kind)
       IN  /\ c.name # "" /\ c.health > 0
           /\ c.armor # "" /\ c.weapon # "" /\ c.magic # ""
           /\ c.strength \in r.strength
           /\ c.intelligence \in r.intelligence
           /\ c.wisdom \in r.wisdom
           /\ c.dexterity \in r.dexterity
           /\ c.constitution \in r.constitution
           /\ c.charisma \in r.charisma

\* a monster was assembled and its three dice all came up six
C5_Witness ==
    /\ prog = "builder" /\ kind = "MonsterBuilder"
    /\ character \in built
    /\ heap[character].dexterity = 18

\* every field of the character has been given a value
FullyAssembled(c) ==
    /\ c.name # "" /\ c.armor # "" /\ c.weapon # "" /\ c.magic # ""
    /\ c.health # 0 /\ c.strength # 0 /\ c.intelligence # 0 /\ c.wisdom # 0
    /\ c.dexterity # 0 /\ c.constitution # 0 /\ c.charisma # 0

\* an Obround whose construction failed was not returned
FailedObroundNotReturned ==
    (prog = "shapes" /\ call.arity = 2 /\ call.type = "Obround"
       /\ call.size1 < call.size2) => ret.kind # "return"

\* C6 as claimed: every handle getCharacter returned refers to a fully assembled
\* character, also when it was obtained before any buildCharacterAttributes or
\* right after reset; and a failed Obround is never returned.
C6_AsClaimed ==
    /\ \A i \in 1..Len(handles) : FullyAssembled(heap[handles[i]])
    /\ FailedObroundNotReturned

\* C6 amended: a handle getCharacter returned refers to a fully assembled character
\* once buildCharacterAttributes has run on that character, and to the empty
\* character of reset until then; and a failed Obround is never returned.
C6_AssembledOnceBuilt ==
    /\ \A i \in 1..Len(handles) :
          /\ handles[i] \in built => FullyAssembled(heap[handles[i]])
          /\ handles[i] \notin built => heap[handles[i]] = NewCharacter
    /\ FailedObroundNotReturned

\* the client holds a handle to an assembled character and, after a reset, a
\* handle to the empty one
C6_Witness ==
    /\ Len(handles) = 2
    /\ handles[1] \in built
    /\ handles[2] \notin built

\* what main calls on the four shapes that are always created, in order
FourShapes ==
    << <<"circle", "draw">>, <<"circle", "collide">>,
       <<"triangle", "draw">>, <<"triangle", "collide">>,
       <<"square", "draw">>, <<"square", "collide">>,
       <<"rectangle", "draw">>, <<"rectangle", "collide">> >>

ObroundCalls == << <<"obround", "draw">>, <<"obround", "collide">> >>

\* C7: in main of the Factory Method demo, for any length/height of the obround:
\* a thrown std::invalid_argument is caught (main is never terminated by it),
\* exactly one diagnostic goes to standard error and the obround handle stays
\* null; without a throw nothing goes to standard error; draw/collide are called
\* on the obround only when its handle is non-null; the four other shapes are
\* drawn and collided; no null handle is dereferenced; main runs to its return
\* and the exit code is 0.
C7_MainHandlesObroundFailure ==
    prog = "fm_main" =>
       /\ ~fault
       /\ exitCode \in {0 - 1, 0}
       /\ (exitCode = 0 - 1) = (pc # 0)
       /\ pc # 0 => ENABLED NextFM
       /\ pc \in 230..235 => (err = <<>> /\ fm.obround = nullptr)
       /\ (pc \notin 230..235 /\ obArgs[1] < obArgs[2]) =>
             (Len(err) = 1 /\ fm.obround = nullptr)
       /\ (pc \notin 230..235 /\ obArgs[1] >= obArgs[2]) =>
             (err = <<>> /\ fm.obround # nullptr)
       /\ (\E i \in 1..Len(trace) : trace[i][1] = "obround") => fm.obround # nullptr
       /\ pc = 0 =>
             /\ trace = IF fm.obround = nullptr THEN FourShapes
                        ELSE FourShapes \o ObroundCalls
             /\ Len(out) = Len(trace)

\* main has returned after the obround's construction threw
C7_Witness ==
    /\ prog = "fm_main" /\ pc = 0 /\ exitCode = 0
    /\ obArgs[1] < obArgs[2]
    /\ Len(err) = 1

\* C8: for positive r the object createObject(Circle, r) returns has area
\* pi * r^2 and circumference 2 * pi * r.
C8_CircleAreaCircumference ==
    (call.arity = 1 /\ call.type = "Circle" /\ call.size1 > 0) =>
       /\ Returned
       /\ ret.value.radius = call.size1
       /\ area # <<>> =>
             area[1] = [one |-> 0, pi |-> 4 * (call.size1 * call.size1), sqrt3 |-> 0]
       /\ perim # <<>> =>
             perim[1] = [one |-> 0, pi |-> 4 * (2 * call.size1), sqrt3 |-> 0]

\* a circle of radius above 1 has been measured
C8_Witness ==
    /\ call.arity = 1 /\ call.type = "Circle" /\ call.size1 > 1
    /\ area # <<>> /\ perim # <<>>

\* C9 as claimed: when main of the UI demo has exited, factory, button, menu and
\* dialog have each been released exactly once, in the order dialog, menu, button,
\* factory, and none was used after its release.
C9_AllReleasedInOrder ==
    (prog = "ui_main" /\ exitCode = 0) =>
       /\ relLog = <<"dialog", "menu", "button", "factory">>
       /\ \A o \in DOMAIN ui : ui[o].state = "released"
       /\ ~fault

\* C10 as claimed: Square of side s has area s^2 and perimeter 4s; Triangle of side
\* s has area (sqrt(3)/4) * s^2 and perimeter 3s; Obround of length l and height h
\* (l >= h) has area pi*(h/2)^2 + (l-h)*h and perimeter pi*h + 2*(l-h).
C10_ClosedForms ==
    (prog = "shapes" /\ Returned) =>
       LET o == ret.value
       IN  /\ o.type = "Square" =>
                /\ area # <<>> =>
                      area[1] = [one |-> 4 * (o.sideLength * o.sideLength), pi |-> 0,
                                 sqrt3 |-> 0]
                /\ perim # <<>> =>
                      perim[1] = [one |-> 4 * (4 * o.sideLength), pi |-> 0, sqrt3 |-> 0]
           /\ o.type = "Triangle" =>
                /\ area # <<>> =>
                      area[1] = [one |-> 0, pi |-> 0,
                                 sqrt3 |-> o.sideLength * o.sideLength]
                /\ perim # <<>> =>
                      perim[1] = [one |-> 4 * (3 * o.sideLength), pi |-> 0, sqrt3 |-> 0]
           /\ o.type = "Obround" =>
                /\ area # <<>> =>
                      area[1] = [one |-> 4 * ((o.sideLength - o.sideHeight) * o.sideHeight),
                                 pi |-> o.sideHeight * o.sideHeight, sqrt3 |-> 0]
                /\ perim # <<>> =>
                      perim[1] = [one |-> 4 * (2 * (o.sideLength - o.sideHeight)),
                                  pi |-> 4 * o.sideHeight, sqrt3 |-> 0]

\* the sums of exactly qty draws, each an integer of 1..sides
SumsOfDraws(qty, sides) ==
    {LET RECURSIVE Sum(_)
         Sum(i) == IF i = 0 THEN 0 ELSE Sum(i - 1) + d[i]
     IN  Sum(qty) : d \in [1..qty -> 1..sides]}

\* what every call of roll so far returned, for the arguments C11 covers
RollResultsAsClaimed(sidesFrom) ==
    \A i \in 1..Len(rolls) :
       LET r == rolls[i]
       IN  /\ (r.qty >= 1 /\ r.sides >= 1) =>
                /\ r.outcome.kind = "return"
                /\ r.outcome.value \in SumsOfDraws(r.qty, r.sides)
                /\ r.outcome.value \in r.qty..(r.qty * r.sides)
           /\ (r.qty <= 0 /\ r.sides >= sidesFrom) =>
                (r.outcome.kind = "return" /\ r.outcome.value = 0)

\* whatever was rolled before, the next roll(qty, sides) can return exactly the
\* integers of qty..qty*sides
NextRollIndependent ==
    CanRoll =>
       \A qty \in 1..MaxQty, sides \in 1..MaxSides :
          \A v \in (qty - 1)..(qty * sides + 1) :
             (ENABLED RollOutcome(qty, sides, Return(v))) = (v \in qty..(qty * sides))

\* C11 as claimed: roll(qty, sides) returns the sum of exactly qty draws, each in
\* 1..sides; for qty >= 1 and sides >= 1 every result lies in qty..qty*sides and
\* every integer of that range is possible; for qty <= 0 the result is 0 (whatever
\* sides is); successive rolls are independent.
C11_AsClaimed ==
    prog = "roll" => (RollResultsAsClaimed(0) /\ NextRollIndependent)

\* C11 amended: as claimed, but the result for qty <= 0 is 0 provided sides >= 1.
C11_RollSumsDraws ==
    prog = "roll" => (RollResultsAsClaimed(1) /\ NextRollIndependent)

\* two successive rolls of the same dice gave the highest and then the lowest sum,
\* and a further roll is possible: RollOutcome was taken twice with qty = 2
C11_Witness ==
    /\ prog = "roll"
    /\ Len(rolls) = 2
    /\ rolls[1].qty = 2 /\ rolls[1].sides = 3 /\ rolls[1].outcome = Return(6)
    /\ rolls[2].qty = 2 /\ rolls[2].sides = 3 /\ rolls[2].outcome = Return(2)

\* a handle refers to the builder's current product exactly if no reset has
\* occurred since it was obtained
CurrentIffNoReset ==
    \A i \in 1..Len(handles) : (handles[i] = character) = (i \notin stale)

\* what each call does to the handles and to the characters handed out.  A step of
\* the builder's client that adds a handle is a getCharacter, one that counts a
\* build is a buildCharacterAttributes, and any other one is a reset.
HandlesStep ==
    prog = "builder" =>
       /\ Len(handles') # Len(handles) =>
             /\ handles'[Len(handles')] = character
             /\ character' = character
             /\ heap' = heap
       /\ (handles' = handles /\ builds' = builds) =>
             /\ \A i \in 1..Len(handles) :
                   /\ handles[i] # character'
                   /\ heap'[handles[i]] = heap[handles[i]]
             /\ heap'[character'] = NewCharacter
       /\ builds' # builds =>
             /\ character' = character
             /\ \A i \in stale : heap'[handles[i]] = heap[handles[i]]
             /\ \A i \in (1..Len(handles)) \ stale :
                   heap'[handles[i]] = heap'[character']

\* C12: for any sequence of reset, buildCharacterAttributes and getCharacter calls
\* on one builder, a handle refers to the builder's current product if and only if
\* no reset has occurred since it was obtained: getCharacter returns the builder's
\* own shared Character, so a later buildCharacterAttributes shows through handles
\* obtained since the last reset; reset installs a fresh empty Character, and
\* neither reset nor a later buildCharacterAttributes changes a Character handed
\* out before that reset.
C12_HandlesAndReset == [](prog = "builder" => CurrentIffNoReset) /\ [][HandlesStep]_vars

\* the hero was assembled with every die at its lowest, handed out, reset and
\* assembled again with the strength die at its highest: the first handle still
\* shows the old hero, the second one the builder's current hero
C12_Witness ==
    /\ prog = "builder" /\ kind = "HeroBuilder"
    /\ Len(handles) = 2 /\ stale = {1}
    /\ builds = 1 /\ character \in built
    /\ heap[handles[1]].strength = 13
    /\ handles[2] = character
    /\ heap[handles[2]].strength = 18

=============================================================================
